---- MODULE Spec2Model ----
(***************************************************************************)
(* Model of MarketingStrategy-AI.py: the class MarketingStrategyAI with    *)
(* parse_data, validate_data, _convert_field_types, analyze_campaigns and  *)
(* process_data.                                                           *)
(*                                                                         *)
(* Numbers.  A finite Python float is carried as an integer number of      *)
(* hundredths (0.25 is 25, 1500.0 is 150000); a Python int is carried in   *)
(* units.  round(x, 2) of an exact rational is the nearest hundredth; on   *)
(* an exact tie the binary value of the float decides, which the model     *)
(* leaves open (both neighbours are possible).                             *)
(*                                                                         *)
(* Python values are records [k, n]: k is the kind of the value, n its     *)
(* number (0 where the kind carries none).                                 *)
(***************************************************************************)
EXTENDS Integers, Sequences, FiniteSets, TLC

(***************************************************************************)
(* Bounds of the model.                                                    *)
(***************************************************************************)
MaxBatch == 2

(***************************************************************************)
(* __init__: the schema tables.                                            *)
(***************************************************************************)
required_fields ==
  << "campaign_id", "engagement_score", "conversion_rate", "predictive_roi",
     "budget_usd", "total_campaign_spend", "new_customers_acquired",
     "customers_start", "customers_end", "revenue_generated",
     "advertising_spend" >>

\* the keys of field_validations, in insertion order
field_validations ==
  << "engagement_score", "conversion_rate", "predictive_roi", "budget_usd",
     "total_campaign_spend", "new_customers_acquired", "customers_start",
     "customers_end", "revenue_generated", "advertising_spend" >>

count_fields == {"new_customers_acquired", "customers_start", "customers_end"}

Range(s) == {s[i] : i \in DOMAIN s}

default_thresholds ==
  [composite_score |-> 5000, cac |-> 5000, retention_rate |-> 9000, roas |-> 300]

(***************************************************************************)
(* Python values.                                                          *)
(***************************************************************************)
V(kind, num) == [k |-> kind, n |-> num]

StrNum(h)  == V("strnum", h)      \* a string float() parses, h hundredths
StrText    == V("strtext", 0)     \* a string float() rejects ("abc", "")
StrInf     == V("strinf", 0)      \* "inf", "1e400"
StrNan     == V("strnan", 0)      \* "nan"
PyNone     == V("none", 0)        \* None (short CSV row, JSON null)
PyInt(u)   == V("int", u)         \* int, u units
PyBigInt   == V("bigint", 0)      \* an int beyond the float range (JSON)
PyFloat(h) == V("float", h)       \* finite float, h hundredths
FInf       == V("finf", 0)        \* float('inf')
FNInf      == V("fninf", 0)       \* float('-inf')
FNan       == V("fnan", 0)        \* float('nan')
PyList     == V("list", 0)        \* a nested list or object

Ok(v)      == [exc |-> "none", v |-> v]
Raise(e)   == [exc |-> e, v |-> PyNone]

\* float(value)
float(value) ==
  CASE value.k = "strnum"  -> Ok(PyFloat(value.n))
    [] value.k = "strinf"  -> Ok(FInf)
    [] value.k = "strnan"  -> Ok(FNan)
    [] value.k = "strtext" -> Raise("ValueError")
    [] value.k = "int"     -> Ok(PyFloat(100 * value.n))
    [] value.k = "bigint"  -> Raise("OverflowError")
    [] value.k = "float"   -> Ok(value)
    [] value.k \in {"finf", "fninf", "fnan"} -> Ok(value)
    [] OTHER               -> Raise("TypeError")

\* int(x) of a float x: truncation towards zero
int(x) ==
  CASE x.k = "float" ->
         Ok(PyInt(IF x.n >= 0 THEN x.n \div 100 ELSE 0 - ((0 - x.n) \div 100)))
    [] x.k \in {"finf", "fninf"} -> Raise("OverflowError")
    [] x.k = "fnan"  -> Raise("ValueError")
    [] OTHER         -> Raise("TypeError")

\* int(float(value))
int_float(value) ==
  IF float(value).exc = "none" THEN int(float(value).v) ELSE float(value)

(***************************************************************************)
(* _convert_field_types: one key of the record.  The try blocks catch      *)
(* ValueError and TypeError only; any other exception leaves the method.   *)
(***************************************************************************)
Caught == {"ValueError", "TypeError"}

convert_value(key, value) ==
  IF key \in count_fields
    THEN IF int_float(value).exc = "none" THEN int_float(value)
         ELSE IF int_float(value).exc \in Caught THEN Ok(value)
         ELSE int_float(value)
  ELSE IF key \in Range(field_validations) /\ key # "campaign_id"
    THEN IF float(value).exc = "none" THEN float(value)
         ELSE IF float(value).exc \in Caught THEN Ok(value)
         ELSE float(value)
  ELSE Ok(value)

\* the exception _convert_field_types(record) leaves with, or "none"
convert_exc(record) ==
  IF \E key \in DOMAIN record : convert_value(key, record[key]).exc # "none"
    THEN "OverflowError" ELSE "none"

\* the dict _convert_field_types(record) returns (a new dict)
_convert_field_types(record) ==
  [key \in DOMAIN record |-> convert_value(key, record[key]).v]

(***************************************************************************)
(* field_validations: the lambdas.  "TypeError" is the comparison of a     *)
(* str, None or list with a number.                                        *)
(***************************************************************************)
IsNumber(x) == x.k \in {"int", "float", "finf", "fninf", "fnan"}

\* 0 <= x
GeZero(x) ==
  CASE x.k \in {"int", "float"} -> x.n >= 0
    [] x.k = "finf" -> TRUE
    [] OTHER -> FALSE

\* x > 0
GtZero(x) ==
  CASE x.k \in {"int", "float"} -> x.n > 0
    [] x.k = "finf" -> TRUE
    [] OTHER -> FALSE

\* x <= bound, bound in units
LeUnits(x, bound) ==
  CASE x.k = "int"   -> x.n <= bound
    [] x.k = "float" -> x.n <= 100 * bound
    [] x.k = "fninf" -> TRUE
    [] OTHER -> FALSE

\* validation_func with 'x >= 0' in place of 'x > 0'
validation_func_nonneg(field, x) ==
  IF ~IsNumber(x) THEN "TypeError"
  ELSE IF field = "engagement_score"
    THEN IF GeZero(x) /\ LeUnits(x, 100) THEN "True" ELSE "False"
  ELSE IF field = "conversion_rate"
    THEN IF GeZero(x) /\ LeUnits(x, 1) THEN "True" ELSE "False"
  ELSE IF field \in count_fields
    THEN IF GeZero(x) /\ x.k = "int" THEN "True" ELSE "False"
  ELSE IF GeZero(x) THEN "True" ELSE "False"

validation_func(field, x) ==
  IF ~IsNumber(x) THEN "TypeError"
  ELSE IF field = "engagement_score"
    THEN IF GeZero(x) /\ LeUnits(x, 100) THEN "True" ELSE "False"
  ELSE IF field = "conversion_rate"
    THEN IF GeZero(x) /\ LeUnits(x, 1) THEN "True" ELSE "False"
  ELSE IF field \in count_fields
    THEN IF GtZero(x) /\ x.k = "int" THEN "True" ELSE "False"
  ELSE IF GtZero(x) THEN "True" ELSE "False"

(***************************************************************************)
(* Python objects handed from parse_data to validate_data.  t is the type  *)
(* of the object; a list has items, a dict has keys (and, under the key    *)
(* 'error', the message error), an int has the value n, a str the length   *)
(* n.  An item of a list is a dict (rec, field name -> value) or not.      *)
(***************************************************************************)
NoRecord == [key \in {} |-> PyNone]
NoMessage == [kind |-> "", fields |-> << >>, row |-> 0]

DictItem(rec) == [t |-> "dict", rec |-> rec]
OtherItem(type) == [t |-> type, rec |-> NoRecord]

Obj(type, items, keys, num, msg) ==
  [t |-> type, items |-> items, keys |-> keys, n |-> num, error |-> msg]
ListObj(items) == Obj("list", items, {}, 0, NoMessage)
DictObj(keys, msg) == Obj("dict", << >>, keys, 0, msg)
IntObj(num) == Obj("int", << >>, {}, num, NoMessage)
StrObj(len) == Obj("str", << >>, {}, len, NoMessage)
NoneObj == Obj("none", << >>, {}, 0, NoMessage)

\* the messages
FormatError == [kind |-> "format", fields |-> << >>, row |-> 0]
NoDataError == [kind |-> "nodata", fields |-> << >>, row |-> 0]
OtherMessage == [kind |-> "other", fields |-> << >>, row |-> 0]
MissingError(fields, row) == [kind |-> "missing", fields |-> fields, row |-> row]
InvalidError(fields, row) == [kind |-> "invalid", fields |-> fields, row |-> row]

\* not data
falsy(data) ==
  CASE data.t = "list" -> data.items = << >>
    [] data.t = "dict" -> data.keys = {}
    [] data.t \in {"int", "str"} -> data.n = 0
    [] OTHER -> TRUE

\* the elements a for loop over data visits
elements(data) ==
  IF data.t = "list" THEN data.items
  ELSE [i \in 1..data.n |-> OtherItem("str")]

(***************************************************************************)
(* validate_data.                                                          *)
(***************************************************************************)
EmptyReport == [text |-> "", campaigns |-> 0, success |-> FALSE, summary |-> << >>]

new_validation_result ==
  [is_valid |-> TRUE, errors |-> << >>, report |-> EmptyReport, data |-> << >>]

\* missing_fields that stops at the first missing field
missing_fields_first(converted_record) ==
  LET all == SelectSeq(required_fields,
                       LAMBDA field : field \notin DOMAIN converted_record)
  IN IF all = << >> THEN << >> ELSE << all[1] >>

\* lines 100-104
missing_fields(converted_record) ==
  SelectSeq(required_fields, LAMBDA field : field \notin DOMAIN converted_record)

\* lines 112-120
invalid_fields(converted_record) ==
  SelectSeq(field_validations,
            LAMBDA field : validation_func(field, converted_record[field]) # "True")

\* validate_record without line 104: a missing field leaves is_valid alone
validate_record_flag_unset(acc, item, idx) ==
  IF item.t # "dict" THEN [acc EXCEPT !.exc = "AttributeError"]
  ELSE IF convert_exc(item.rec) # "none"
    THEN [acc EXCEPT !.exc = convert_exc(item.rec)]
  ELSE LET converted_record == _convert_field_types(item.rec)
           missing == missing_fields(converted_record)
       IN IF missing # << >>
            THEN [acc EXCEPT !.errors = Append(@, MissingError(missing, idx + 1))]
          ELSE LET invalid == invalid_fields(converted_record)
               IN IF invalid # << >>
                    THEN [acc EXCEPT !.is_valid = FALSE,
                                     !.errors = Append(@, InvalidError(invalid, idx + 1))]
                  ELSE [acc EXCEPT !.data = Append(@, converted_record)]

\* validate_record without the 'continue' of line 125
validate_record_no_continue(acc, item, idx) ==
  IF item.t # "dict" THEN [acc EXCEPT !.exc = "AttributeError"]
  ELSE IF convert_exc(item.rec) # "none"
    THEN [acc EXCEPT !.exc = convert_exc(item.rec)]
  ELSE LET converted_record == _convert_field_types(item.rec)
           missing == missing_fields(converted_record)
       IN IF missing # << >>
            THEN [acc EXCEPT !.is_valid = FALSE,
                             !.errors = Append(@, MissingError(missing, idx + 1))]
          ELSE LET invalid == invalid_fields(converted_record)
               IN IF invalid # << >>
                    THEN [acc EXCEPT !.is_valid = FALSE,
                                     !.errors = Append(@, InvalidError(invalid, idx + 1)),
                                     !.data = Append(@, converted_record)]
                  ELSE [acc EXCEPT !.data = Append(@, converted_record)]

\* one pass of the loop body, lines 95-128, on the record at index idx;
\* acc is [exc, is_valid, errors, data]
validate_record(acc, item, idx) ==
  IF item.t # "dict" THEN [acc EXCEPT !.exc = "AttributeError"]
  ELSE IF convert_exc(item.rec) # "none"
    THEN [acc EXCEPT !.exc = convert_exc(item.rec)]
  ELSE LET converted_record == _convert_field_types(item.rec)
           missing == missing_fields(converted_record)
       IN IF missing # << >>
            THEN [acc EXCEPT !.is_valid = FALSE,
                             !.errors = Append(@, MissingError(missing, idx + 1))]
          ELSE LET invalid == invalid_fields(converted_record)
               IN IF invalid # << >>
                    THEN [acc EXCEPT !.is_valid = FALSE,
                                     !.errors = Append(@, InvalidError(invalid, idx + 1))]
                  ELSE [acc EXCEPT !.data = Append(@, converted_record)]

\* the loop of lines 95-128 from index idx on
RECURSIVE validate_loop(_, _, _)
validate_loop(acc, items, idx) ==
  IF idx >= Len(items) \/ acc.exc # "none" THEN acc
  ELSE validate_loop(validate_record(acc, items[idx + 1], idx), items, idx + 1)

\* lines 130-158: the report
validation_report(data, acc) ==
  [text |-> "report", campaigns |-> Len(elements(data)),
   success |-> acc.is_valid, summary |-> acc.errors]

\* validate_data(data): [exc, result]
validate_data(data) ==
  IF falsy(data)
    THEN [exc |-> "none",
          result |-> [new_validation_result EXCEPT
                        !.is_valid = FALSE, !.errors = << NoDataError >>]]
  ELSE IF data.t = "dict" /\ "error" \in data.keys
    THEN [exc |-> "none",
          result |-> [new_validation_result EXCEPT
                        !.is_valid = FALSE, !.errors = << data.error >>]]
  ELSE IF data.t \notin {"list", "dict", "str"}
    THEN [exc |-> "TypeError", result |-> new_validation_result]
  ELSE IF data.t = "dict"
    THEN [exc |-> "KeyError", result |-> new_validation_result]
  ELSE IF elements(data)[1].t \in {"int", "none"}
    THEN [exc |-> "TypeError", result |-> new_validation_result]
  ELSE LET acc == validate_loop([exc |-> "none", is_valid |-> TRUE,
                                 errors |-> << >>, data |-> << >>],
                                elements(data), 0)
       IN [exc |-> acc.exc,
           result |-> IF acc.exc # "none" THEN new_validation_result
                      ELSE [is_valid |-> acc.is_valid, errors |-> acc.errors,
                            report |-> validation_report(data, acc),
                            data |-> acc.data]]

(***************************************************************************)
(* The input text data_str, by what parse_data reads of it: whether the    *)
(* stripped text starts with '{' (brace), whether it contains ',' (comma), *)
(* whether json.loads accepts it (json_ok) and the object it yields (top), *)
(* whether csv.DictReader reads it (csv_ok) and its header and rows of     *)
(* cells.  A JSON object top has the key 'campaigns' or not                *)
(* (has_campaigns), the value under it (campaigns) and the other keys      *)
(* (rec).                                                                  *)
(***************************************************************************)
NoTop == [has_campaigns |-> FALSE, campaigns |-> NoneObj, rec |-> NoRecord]

Text(brace, comma, json_ok, top, csv_ok, header, rows) ==
  [brace |-> brace, comma |-> comma, json_ok |-> json_ok, top |-> top,
   csv_ok |-> csv_ok, header |-> header, rows |-> rows]

JsonText(top, comma) == Text(TRUE, comma, TRUE, top, FALSE, << >>, << >>)
BadJsonText(comma)   == Text(TRUE, comma, FALSE, NoTop, FALSE, << >>, << >>)
CsvText(header, rows) == Text(FALSE, TRUE, FALSE, NoTop, TRUE, header, rows)
BadCsvText           == Text(FALSE, TRUE, FALSE, NoTop, FALSE, << >>, << >>)
PlainText            == Text(FALSE, FALSE, FALSE, NoTop, FALSE, << >>, << >>)

\* {"campaigns": value, ...} and {field: value, ...}
CampaignsTop(value) == [has_campaigns |-> TRUE, campaigns |-> value, rec |-> NoRecord]
RecordTop(rec)      == [has_campaigns |-> FALSE, campaigns |-> NoneObj, rec |-> rec]

restkey == "<None>"

\* csv.DictReader: one row of cells under the header.  A short row leaves
\* the remaining keys at None, a long row puts the rest under the key None.
csv_row(header, row) ==
  [key \in Range(header) \cup (IF Len(row) > Len(header) THEN {restkey} ELSE {}) |->
     IF key = restkey /\ key \notin Range(header) THEN PyList
     ELSE LET i == CHOOSE j \in DOMAIN header : header[j] = key
          IN IF i <= Len(row) THEN row[i] ELSE PyNone]

\* list(csv.DictReader(...)): rows without cells are skipped
csv_rows(header, rows) ==
  LET kept == SelectSeq(rows, LAMBDA row : row # << >>)
  IN [i \in 1..Len(kept) |-> DictItem(csv_row(header, kept[i]))]

ErrorDict == DictObj({"error"}, FormatError)

(***************************************************************************)
(* parse_data.                                                             *)
(***************************************************************************)
parse_json(text) ==
  IF ~text.json_ok THEN ErrorDict
  ELSE IF text.top.has_campaigns THEN text.top.campaigns
  ELSE ListObj(<< DictItem(text.top.rec) >>)

parse_csv(text) ==
  IF ~text.csv_ok THEN ErrorDict
  ELSE ListObj(csv_rows(text.header, text.rows))

parse_data(text) ==
  IF text.brace THEN parse_json(text)
  ELSE IF text.comma THEN parse_csv(text)
  ELSE ErrorDict

(***************************************************************************)
(* Float arithmetic of analyze_campaigns.                                  *)
(***************************************************************************)
\* the nearest integers to num / den, den > 0: both neighbours on a tie
RoundQ(num, den) ==
  LET q == num \div den
      r == num % den
  IN IF 2 * r < den THEN {q}
     ELSE IF 2 * r > den THEN {q + 1}
     ELSE {q, q + 1}

Hundredths(x) == IF x.k = "int" THEN 100 * x.n ELSE x.n
IsFinite(x) == x.k \in {"int", "float"}
IsZero(x) == IsFinite(x) /\ x.n = 0
IsNeg(x) == x.k = "fninf" \/ (IsFinite(x) /\ x.n < 0)
Neg(x) ==
  CASE x.k = "finf" -> FNInf
    [] x.k = "fninf" -> FInf
    [] x.k = "fnan" -> FNan
    [] OTHER -> PyFloat(0 - Hundredths(x))

\* the values round((x / y) * mult, 2) can take, y # 0, mult > 0
round_ratio(x, y, mult) ==
  IF x.k = "fnan" \/ y.k = "fnan" THEN {FNan}
  ELSE IF ~IsFinite(x) /\ ~IsFinite(y) THEN {FNan}
  ELSE IF ~IsFinite(x) THEN {IF IsNeg(y) THEN Neg(x) ELSE x}
  ELSE IF ~IsFinite(y) THEN {PyFloat(0)}
  ELSE IF Hundredths(y) > 0
    THEN {PyFloat(q) : q \in RoundQ(Hundredths(x) * 100 * mult, Hundredths(y))}
  ELSE {PyFloat(q) : q \in RoundQ((0 - Hundredths(x)) * 100 * mult, 0 - Hundredths(y))}

\* the values round(x * (num / den), 2) can take, num > 0, den > 0
round_scale(x, num, den) ==
  IF ~IsFinite(x) THEN {x}
  ELSE {PyFloat(q) : q \in RoundQ(Hundredths(x) * num, den)}

\* x + y
add(x, y) ==
  IF x.k = "fnan" \/ y.k = "fnan" THEN FNan
  ELSE IF ~IsFinite(x) /\ ~IsFinite(y) THEN (IF x.k = y.k THEN x ELSE FNan)
  ELSE IF ~IsFinite(x) THEN x
  ELSE IF ~IsFinite(y) THEN y
  ELSE PyFloat(Hundredths(x) + Hundredths(y))

\* x - y
sub(x, y) == add(x, Neg(y))

\* x >= t, x <= t, x > t for a finite t in hundredths
ge(x, t) == x.k = "finf" \/ (IsFinite(x) /\ Hundredths(x) >= t)
le(x, t) == x.k = "fninf" \/ (IsFinite(x) /\ Hundredths(x) <= t)
gt(x, t) == x.k = "finf" \/ (IsFinite(x) /\ Hundredths(x) > t)

(***************************************************************************)
(* analyze_campaigns: one campaign.                                        *)
(***************************************************************************)
NoAnalysis ==
  [campaign_id |-> PyNone, cac |-> FNan, retention_rate |-> FNan, roas |-> FNan,
   term1 |-> FNan, term2 |-> FNan, term3 |-> FNan, term4 |-> FNan,
   term5 |-> FNan, term6 |-> FNan, composite_score |-> FNan,
   cost_efficiency |-> FNan, cost_effective |-> FALSE,
   meets_thresholds |-> FALSE, status |-> ""]

Failed(e) == [exc |-> e, a |-> NoAnalysis]

\* meets_thresholds with 'composite_score > threshold'
meets_thresholds_strict(composite_score, cac, retention_rate, roas, th) ==
  /\ gt(composite_score, th.composite_score)
  /\ le(cac, th.cac)
  /\ ge(retention_rate, th.retention_rate)
  /\ ge(roas, th.roas)

\* lines 283-288
meets_thresholds(composite_score, cac, retention_rate, roas, th) ==
  /\ ge(composite_score, th.composite_score)
  /\ le(cac, th.cac)
  /\ ge(retention_rate, th.retention_rate)
  /\ ge(roas, th.roas)

\* lines 296-301
status_of(meets) == IF meets THEN "Optimal" ELSE "Needs Improvement"

\* composite_of with term4 added instead of subtracted
composite_of_added(term1, term2, term3, term4, term5, term6) ==
  add(add(add(add(add(term1, term2), term3), term4), term5), term6)

\* line 257
composite_of(term1, term2, term3, term4, term5, term6) ==
  add(add(sub(add(add(term1, term2), term3), term4), term5), term6)

\* line 245: term4 from the rounded cac
term4_of(campaign, cac) == round_scale(cac, 1, 20)

\* lines 268-304, all the metrics known
recommend(campaign, cac, ret, roas, t1, t2, t3, t4, t5, t6, th) ==
  LET composite_score == composite_of(t1, t2, t3, t4, t5, t6)
      meets == meets_thresholds(composite_score, cac, ret, roas, th)
  IN { [exc |-> "none",
        a |-> [campaign_id |-> campaign["campaign_id"], cac |-> cac,
               retention_rate |-> ret, roas |-> roas,
               term1 |-> t1, term2 |-> t2, term3 |-> t3, term4 |-> t4,
               term5 |-> t5, term6 |-> t6,
               composite_score |-> composite_score,
               cost_efficiency |-> ce, cost_effective |-> gt(ce, 5),
               meets_thresholds |-> meets, status |-> status_of(meets)]]
       : ce \in round_ratio(composite_score, campaign["budget_usd"], 1) }

\* lines 242-247, given the three rounded metrics
terms(campaign, cac, ret, roas, th) ==
  UNION { recommend(campaign, cac, ret, roas, t1, t2, t3, t4, t5, t6, th) :
            t1 \in round_scale(campaign["engagement_score"], 1, 2),
            t2 \in round_scale(campaign["conversion_rate"], 30, 1),
            t3 \in round_scale(campaign["predictive_roi"], 2, 1),
            t4 \in term4_of(campaign, cac),
            t5 \in round_scale(ret, 1, 10),
            t6 \in round_scale(roas, 1, 10) }

\* the body of the loop of lines 189-306: the outcomes [exc, a] it can have
analyze_campaign(campaign, th) ==
  IF \E field \in Range(required_fields) : field \notin DOMAIN campaign
    THEN {Failed("KeyError")}
  ELSE IF \E field \in Range(field_validations) : ~IsNumber(campaign[field])
    THEN {Failed("TypeError")}
  ELSE IF \/ IsZero(campaign["new_customers_acquired"])
          \/ IsZero(campaign["customers_start"])
          \/ IsZero(campaign["advertising_spend"])
          \/ IsZero(campaign["budget_usd"])
    THEN {Failed("ZeroDivisionError")}
  ELSE UNION { terms(campaign, cac, ret, roas, th) :
                 cac \in round_ratio(campaign["total_campaign_spend"],
                                     campaign["new_customers_acquired"], 1),
                 ret \in round_ratio(sub(campaign["customers_end"],
                                         campaign["new_customers_acquired"]),
                                     campaign["customers_start"], 100),
                 roas \in round_ratio(campaign["revenue_generated"],
                                      campaign["advertising_spend"], 1) }

\* analyze_campaigns(validated_data): the outcomes [exc, report] it can have,
\* report the sequence of the analyses of the campaigns
RECURSIVE analyze_campaigns(_, _)
analyze_campaigns(validated_data, th) ==
  IF validated_data = << >> THEN {[exc |-> "none", report |-> << >>]}
  ELSE UNION { IF first.exc # "none" THEN {[exc |-> first.exc, report |-> << >>]}
               ELSE { [exc |-> rest.exc,
                       report |-> IF rest.exc # "none" THEN << >>
                                  ELSE << first.a >> \o rest.report]
                      : rest \in analyze_campaigns(Tail(validated_data), th) }
               : first \in analyze_campaign(validated_data[1], th) }

(***************************************************************************)
(* The inputs.                                                             *)
(***************************************************************************)
FieldIndex(field) == CHOOSE i \in DOMAIN required_fields : required_fields[i] = field

\* the record with the given values, in the order of required_fields
RecordOf(cells) == [key \in Range(required_fields) |-> cells[FieldIndex(key)]]

CampaignId(num) == V("strtext", num)

\* the first data row of the example of main(), as CSV cells (Scenario A)
CAMP601Cells ==
  << CampaignId(601), StrNum(8000), StrNum(25), StrNum(700), StrNum(150000),
     StrNum(140000), StrNum(3000), StrNum(30000), StrNum(33000),
     StrNum(210000), StrNum(35000) >>
CAMP601 == RecordOf(CAMP601Cells)

\* a JSON record whose four metrics sit exactly on the default thresholds:
\* cac 50.0, retention_rate 90.0, roas 3.0, composite_score 50.0
OnThresholds ==
  RecordOf(<< CampaignId(700), PyInt(80), PyFloat(4), PyInt(1), PyInt(1000),
              PyInt(100), PyInt(2), PyInt(10), PyInt(11), PyInt(300),
              PyInt(100) >>)

\* a campaign that loses customers: retention_rate -10.0, cac 75.0, roas 2.0
WeakCells ==
  << CampaignId(605), StrNum(4000), StrNum(10), StrNum(200), StrNum(200000),
     StrNum(150000), StrNum(2000), StrNum(10000), StrNum(1000),
     StrNum(100000), StrNum(50000) >>
Weak == RecordOf(WeakCells)

\* a campaign whose quotients fall on the middle of two hundredths
HalfwayCells ==
  << CampaignId(800), StrNum(7525), StrNum(50), StrNum(300), StrNum(300),
     StrNum(10100), StrNum(800), StrNum(800), StrNum(900), StrNum(100),
     StrNum(800) >>
Halfway == RecordOf(HalfwayCells)

Alter(rec, fields, value) ==
  [key \in DOMAIN rec |-> IF key \in fields THEN value ELSE rec[key]]
Drop(rec, fields) == [key \in DOMAIN rec \ fields |-> rec[key]]

\* the raw values a field is tried with
RawValues ==
  { StrText, PyNone, StrNum(0), StrNum(0 - 500), StrNum(15000), StrNum(3070),
    StrInf, StrNan, PyList, PyBigInt, PyFloat(50), PyInt(1) }

\* CAMP601 with one field replaced or removed
SingleRecords ==
  { Alter(CAMP601, {field}, value) : field \in Range(required_fields), value \in RawValues }
    \cup { Drop(CAMP601, {field}) : field \in Range(required_fields) }

\* the records the batches of several records are made of
CoreRecords ==
  { CAMP601, OnThresholds, Weak, Halfway,
    Drop(CAMP601, {"revenue_generated"}),
    Alter(Drop(CAMP601, {"engagement_score", "advertising_spend"}),
          {"budget_usd"}, StrNum(0)),
    Alter(CAMP601, {"engagement_score"}, StrNum(15000)),
    Alter(CAMP601, {"conversion_rate", "customers_start", "revenue_generated"}, StrText),
    Alter(CAMP601, {"customers_end"}, StrInf),
    Alter(CAMP601, {"budget_usd"}, StrInf),
    Alter(CAMP601, {"revenue_generated", "advertising_spend"}, StrInf) }

SeqsUpTo(S, n) == UNION { [1..m -> S] : m \in 0..n }

Items(batch) == [i \in DOMAIN batch |-> DictItem(batch[i])]

JsonBatches ==
  { << rec >> : rec \in SingleRecords } \cup SeqsUpTo(CoreRecords, MaxBatch)

\* values of 'campaigns' that are not arrays of objects
OddCampaigns ==
  { IntObj(5), IntObj(0), StrObj(2), StrObj(0), NoneObj,
    DictObj({"error"}, OtherMessage), DictObj({"a"}, NoMessage),
    DictObj({}, NoMessage),
    ListObj(<< OtherItem("int") >>), ListObj(<< OtherItem("str") >>),
    ListObj(<< OtherItem("list") >>),
    ListObj(<< DictItem(CAMP601), OtherItem("int") >>) }

OddRecords == { NoRecord, [key \in {"error"} |-> StrText] }

\* the lines of a CSV text: full rows, a short row, a long row, an empty row
CsvLines ==
  { CAMP601Cells, WeakCells,
    [CAMP601Cells EXCEPT ![2] = StrNum(15000)],
    [CAMP601Cells EXCEPT ![3] = StrText, ![8] = StrNan],
    [CAMP601Cells EXCEPT ![9] = StrInf],
    SubSeq(CAMP601Cells, 1, 9),
    CAMP601Cells \o << StrText >>,
    << >> }

CsvHeaders == { required_fields, SubSeq(required_fields, 1, 10) }

Texts ==
  { JsonText(CampaignsTop(ListObj(Items(batch))), TRUE) : batch \in JsonBatches }
    \cup { JsonText(RecordTop(rec), TRUE) : rec \in SingleRecords \cup CoreRecords }
    \cup { JsonText(RecordTop(rec), FALSE) : rec \in OddRecords }
    \cup { JsonText(CampaignsTop(value), comma) : value \in OddCampaigns, comma \in BOOLEAN }
    \cup { BadJsonText(comma) : comma \in BOOLEAN }
    \cup { CsvText(header, rows) : header \in CsvHeaders, rows \in SeqsUpTo(CsvLines, MaxBatch) }
    \cup { BadCsvText, PlainText }

\* the values a caller sets a threshold to: one hundredth off the default
ThresholdNames == {"composite_score", "cac", "retention_rate", "roas"}
ThresholdSteps == {0 - 1, 1}

(***************************************************************************)
(* process_data as a state machine.                                        *)
(***************************************************************************)
VARIABLES
  pc,                 \* position in process_data
  data_str,           \* the argument of process_data
  thresholds,         \* self.thresholds
  parsed_data,        \* line 316
  validation_result,  \* line 319
  analysis_input,     \* the argument analyze_campaigns was called with
  analysis_report,    \* line 326
  result,             \* what process_data returned
  exception,          \* the exception process_data left with
  calls               \* the methods process_data has called, in order

vars == << pc, data_str, thresholds, parsed_data, validation_result,
           analysis_input, analysis_report, result, exception, calls >>

NoResult == [returned |-> FALSE, report |-> EmptyReport,
             with_analysis |-> FALSE, analysis |-> << >>]

Init ==
  /\ pc = "start"
  /\ data_str \in Texts
  /\ thresholds = default_thresholds
  /\ parsed_data = NoneObj
  /\ validation_result = new_validation_result
  /\ analysis_input = << >>
  /\ analysis_report = << >>
  /\ result = NoResult
  /\ exception = "none"
  /\ calls = << >>

\* a caller replaces one entry of analyzer.thresholds before process_data
OverrideThreshold ==
  /\ pc = "start"
  /\ thresholds = default_thresholds
  /\ \E name \in ThresholdNames, step \in ThresholdSteps :
       thresholds' = [thresholds EXCEPT ![name] = @ + step]
  /\ UNCHANGED << pc, data_str, parsed_data, validation_result, analysis_input,
                  analysis_report, result, exception, calls >>

\* line 316
ParseData ==
  /\ pc = "start"
  /\ parsed_data' = parse_data(data_str)
  /\ calls' = Append(calls, "parse_data")
  /\ pc' = "parsed"
  /\ UNCHANGED << data_str, thresholds, validation_result, analysis_input,
                  analysis_report, result, exception >>

\* line 319
ValidateData ==
  /\ pc = "parsed"
  /\ calls' = Append(calls, "validate_data")
  /\ LET out == validate_data(parsed_data)
     IN IF out.exc = "none"
          THEN /\ validation_result' = out.result
               /\ pc' = "validated"
               /\ UNCHANGED exception
          ELSE /\ exception' = out.exc
               /\ pc' = "raised"
               /\ UNCHANGED validation_result
  /\ UNCHANGED << data_str, thresholds, parsed_data, analysis_input,
                  analysis_report, result >>

\* validation_failed that lets a batch through when it has a valid record
validation_failed_when_no_data(vr) == vr.data = << >>

\* line 322: the test that decides whether analysis is skipped
validation_failed(vr) == ~vr.is_valid

\* line 323: what process_data returns when validation failed
failure_result(vr) ==
  [returned |-> TRUE, report |-> vr.report, with_analysis |-> FALSE,
   analysis |-> << >>]

\* lines 322-323
ReturnValidationReport ==
  /\ pc = "validated"
  /\ validation_failed(validation_result)
  /\ result' = failure_result(validation_result)
  /\ pc' = "done"
  /\ UNCHANGED << data_str, thresholds, parsed_data, validation_result,
                  analysis_input, analysis_report, exception, calls >>

\* line 326: the argument of analyze_campaigns
analysis_argument(vr) == vr.data

\* line 326
AnalyzeCampaigns ==
  /\ pc = "validated"
  /\ ~validation_failed(validation_result)
  /\ calls' = Append(calls, "analyze_campaigns")
  /\ analysis_input' = analysis_argument(validation_result)
  /\ \E out \in analyze_campaigns(analysis_argument(validation_result), thresholds) :
       IF out.exc = "none"
         THEN /\ analysis_report' = out.report
              /\ pc' = "analyzed"
              /\ UNCHANGED exception
         ELSE /\ exception' = out.exc
              /\ pc' = "raised"
              /\ UNCHANGED analysis_report
  /\ UNCHANGED << data_str, thresholds, parsed_data, validation_result, result >>

\* line 329
ReturnCompleteReport ==
  /\ pc = "analyzed"
  /\ result' = [returned |-> TRUE, report |-> validation_result.report,
                with_analysis |-> TRUE, analysis |-> analysis_report]
  /\ pc' = "done"
  /\ UNCHANGED << data_str, thresholds, parsed_data, validation_result,
                  analysis_input, analysis_report, exception, calls >>

Next ==
  \/ OverrideThreshold
  \/ ParseData
  \/ ValidateData
  \/ ReturnValidationReport
  \/ AnalyzeCampaigns
  \/ ReturnCompleteReport

Spec == Init /\ [][Next]_vars

(***************************************************************************)
(* Vocabulary of the properties.                                           *)
(***************************************************************************)
\* validate_data has returned
Validated == pc \in {"validated", "analyzed", "done"}

\* parse_data returned a list of dicts: a batch of records
IsBatch(data) == data.t = "list" /\ \A i \in DOMAIN data.items : data.items[i].t = "dict"

\* the domains of the schema, on coerced values
InDomain(field, x) ==
  CASE field = "engagement_score" ->
         x.k \in {"int", "float"} /\ Hundredths(x) >= 0 /\ Hundredths(x) <= 10000
    [] field = "conversion_rate" ->
         x.k \in {"int", "float"} /\ Hundredths(x) >= 0 /\ Hundredths(x) <= 100
    [] field \in count_fields -> x.k = "int" /\ x.n > 0
    [] OTHER -> (x.k \in {"int", "float"} /\ x.n > 0) \/ x.k = "finf"

\* the required fields a raw record lacks, in schema order
Absent(rec) == SelectSeq(required_fields, LAMBDA field : field \notin DOMAIN rec)

\* the validated fields of a complete raw record that are out of domain
OutOfDomain(rec) ==
  SelectSeq(field_validations,
            LAMBDA field : ~InDomain(field, _convert_field_types(rec)[field]))

\* the record passes the required-field check and all domain predicates
Passes(rec) == Absent(rec) = << >> /\ OutOfDomain(rec) = << >>

\* the errors recorded for row i
ErrorsOfRow(i) ==
  SelectSeq(validation_result.errors, LAMBDA e : e.row = i)

\* |value - num / den| is at most half a unit, den > 0
Near(value, num, den) ==
  /\ 2 * (value * den - num) <= den
  /\ 2 * (num - value * den) <= den

AllFinite(campaign) ==
  \A field \in Range(field_validations) : IsFinite(campaign[field])

\* x >= t and x <= t for a float x and a threshold t in hundredths
AtLeast(x, t) == x.k = "finf" \/ (x.k = "float" /\ x.n >= t)
AtMost(x, t)  == x.k = "fninf" \/ (x.k = "float" /\ x.n <= t)

(***************************************************************************)
(* C1.  For a non-empty batch, the is_valid flag validate_data returns is  *)
(* true exactly when every record passes the required-field check and all  *)
(* domain predicates; when some record fails, the records that passed are  *)
(* still all in the returned list 'data'.                                  *)
(***************************************************************************)
C1_IsValidIffAllPass ==
  (Validated /\ IsBatch(parsed_data) /\ parsed_data.items # << >>) =>
    /\ validation_result.is_valid <=>
         \A i \in DOMAIN parsed_data.items : Passes(parsed_data.items[i].rec)
    /\ \A i \in DOMAIN parsed_data.items :
         Passes(parsed_data.items[i].rec) =>
           _convert_field_types(parsed_data.items[i].rec) \in Range(validation_result.data)

\* a batch with a failing record and a passing one has been validated
C1_Witness ==
  /\ pc = "validated"
  /\ ~validation_result.is_valid
  /\ \E i, j \in DOMAIN parsed_data.items :
       /\ Passes(parsed_data.items[i].rec)
       /\ ~Passes(parsed_data.items[j].rec)
  /\ validation_result.data # << >>

(***************************************************************************)
(* C2.  process_data calls parse_data, validate_data, analyze_campaigns in *)
(* this order; analyze_campaigns is called if and only if validation       *)
(* returned is_valid = true, with exactly the validator's list of valid    *)
(* records; a batch with a failing record has none of its records          *)
(* analysed.                                                               *)
(***************************************************************************)
C2_AnalysisOnlyWhenValid ==
  /\ \E n \in 0..3 :
       calls = SubSeq(<< "parse_data", "validate_data", "analyze_campaigns" >>, 1, n)
  /\ "analyze_campaigns" \in Range(calls) =>
       /\ validation_result.is_valid
       /\ analysis_input = validation_result.data
  /\ (pc = "done" /\ validation_result.is_valid) => "analyze_campaigns" \in Range(calls)
  /\ (Validated /\ ~validation_result.is_valid) =>
       /\ analysis_report = << >>
       /\ result.analysis = << >>
       /\ ~result.with_analysis

\* process_data has returned for a batch with a valid and an invalid record
C2_Witness ==
  /\ pc = "done"
  /\ ~validation_result.is_valid
  /\ validation_result.data # << >>
  /\ calls = << "parse_data", "validate_data" >>

(***************************************************************************)
(* C3.  When the text cannot be parsed, or the parsed batch is empty,      *)
(* validation returns is_valid = false with exactly one error message (the *)
(* format error, respectively 'No data provided.'), no valid records, no   *)
(* analysis is performed, and that message is the result process_data      *)
(* returns to its caller.                                                  *)
(***************************************************************************)
C3_SingleMessageReturned ==
  (pc = "done" /\ (parsed_data = ErrorDict \/ parsed_data = ListObj(<< >>))) =>
    /\ ~validation_result.is_valid
    /\ validation_result.errors =
         << IF parsed_data = ErrorDict THEN FormatError ELSE NoDataError >>
    /\ validation_result.data = << >>
    /\ "analyze_campaigns" \notin Range(calls)
    /\ result.report.text # ""
    /\ result.report.summary = validation_result.errors

(***************************************************************************)
(* C4.  For a text that starts with '{' and is well-formed JSON,           *)
(* parse_data returns the elements of 'campaigns' only when the top-level  *)
(* object has the key 'campaigns' with an array as value; in every other   *)
(* case it returns a list of one element, the top-level object.  Such a    *)
(* text is never read as CSV.                                              *)
(***************************************************************************)
C4_CampaignsArrayOrSingleObject ==
  (pc # "start" /\ data_str.brace /\ data_str.json_ok) =>
    /\ parsed_data.t = "list"
    /\ IF data_str.top.has_campaigns /\ data_str.top.campaigns.t = "list"
         THEN parsed_data = data_str.top.campaigns
         ELSE IF ~data_str.top.has_campaigns
           THEN parsed_data = ListObj(<< DictItem(data_str.top.rec) >>)
         ELSE Len(parsed_data.items) = 1 /\ parsed_data.items[1].t = "dict"

(***************************************************************************)
(* C5.  For every record that lacks a required field, the result of        *)
(* validate_data holds exactly one error for the record's row, the         *)
(* 'Missing required field(s)' error naming exactly the absent fields in   *)
(* schema order and the 1-based row; no 'Invalid value' error is recorded  *)
(* for it and the record is not in the valid-record list.                  *)
(***************************************************************************)
C5_MissingFieldsError ==
  (Validated /\ IsBatch(parsed_data)) =>
    \A i \in DOMAIN parsed_data.items :
      LET rec == parsed_data.items[i].rec
      IN Absent(rec) # << >> =>
           /\ ErrorsOfRow(i) = << MissingError(Absent(rec), i) >>
           /\ \A d \in Range(validation_result.data) : DOMAIN d # DOMAIN rec

\* a record lacking two fields, with a present field out of domain, validated
C5_Witness ==
  /\ pc = "validated"
  /\ IsBatch(parsed_data)
  /\ \E i \in DOMAIN parsed_data.items :
       LET rec == parsed_data.items[i].rec
       IN /\ Len(Absent(rec)) = 2
          /\ "budget_usd" \in DOMAIN rec
          /\ ~InDomain("budget_usd", _convert_field_types(rec)["budget_usd"])
          /\ ErrorsOfRow(i) # << >>

(***************************************************************************)
(* C6.  For every record that has all required fields, whatever raw value  *)
(* a field carries, coercion never raises, and validate_data reports one   *)
(* 'Invalid value' error for the record naming exactly the validated       *)
(* fields whose coerced value is of the wrong type or out of domain (none  *)
(* if there is no such field).                                             *)
(***************************************************************************)
C6_CoercionNeverRaises ==
  (pc \notin {"start", "parsed"} /\ IsBatch(parsed_data) /\ parsed_data.items # << >>
     /\ \A i \in DOMAIN parsed_data.items : Absent(parsed_data.items[i].rec) = << >>) =>
    /\ exception = "none"
    /\ \A i \in DOMAIN parsed_data.items :
         LET wrong == OutOfDomain(parsed_data.items[i].rec)
         IN ErrorsOfRow(i) = IF wrong = << >> THEN << >>
                             ELSE << InvalidError(wrong, i) >>

(***************************************************************************)
(* C7.  Every record in the valid-record list has all eleven fields, each  *)
(* validated field inside its domain, and the four denominators            *)
(* new_customers_acquired, customers_start, advertising_spend, budget_usd  *)
(* strictly positive; analysing the list never raises.                     *)
(***************************************************************************)
C7_ValidRecordsAnalysable ==
  /\ \A d \in Range(validation_result.data) :
       /\ Range(required_fields) \subseteq DOMAIN d
       /\ \A field \in Range(field_validations) : InDomain(field, d[field])
       /\ \A field \in {"new_customers_acquired", "customers_start",
                        "advertising_spend", "budget_usd"} :
            d[field].k = "finf" \/ (IsFinite(d[field]) /\ d[field].n > 0)
  /\ "analyze_campaigns" \in Range(calls) =>
       /\ exception = "none"
       /\ Len(analysis_report) = Len(analysis_input)

\* a non-empty list of valid records has been analysed
C7_Witness ==
  /\ pc = "analyzed"
  /\ Len(analysis_report) = MaxBatch
  /\ analysis_input = validation_result.data

(***************************************************************************)
(* C8.  For every analysed record, status is Optimal if and only if        *)
(* meets_thresholds holds, and meets_thresholds holds exactly when         *)
(* composite_score >= its threshold, cac <= its threshold, retention_rate  *)
(* >= its threshold and roas >= its threshold, on the rounded metrics and  *)
(* the thresholds configured at the time; all four comparisons are         *)
(* inclusive.                                                              *)
(***************************************************************************)
C8_StatusIffThresholds ==
  \A i \in DOMAIN analysis_report :
    LET a == analysis_report[i]
    IN /\ a.status \in {"Optimal", "Needs Improvement"}
       /\ a.status = "Optimal" <=> a.meets_thresholds
       /\ a.meets_thresholds <=>
            /\ AtLeast(a.composite_score, thresholds.composite_score)
            /\ AtMost(a.cac, thresholds.cac)
            /\ AtLeast(a.retention_rate, thresholds.retention_rate)
            /\ AtLeast(a.roas, thresholds.roas)

\* a campaign whose four metrics equal the four thresholds is Optimal
C8_Witness ==
  /\ pc = "analyzed"
  /\ \E i \in DOMAIN analysis_report :
       LET a == analysis_report[i]
       IN /\ a.composite_score = PyFloat(thresholds.composite_score)
          /\ a.cac = PyFloat(thresholds.cac)
          /\ a.retention_rate = PyFloat(thresholds.retention_rate)
          /\ a.roas = PyFloat(thresholds.roas)
          /\ a.status = "Optimal"

(***************************************************************************)
(* C9.  For every valid record (with finite fields) the metrics are, to    *)
(* the nearest hundredth, cac = total_campaign_spend /                     *)
(* new_customers_acquired, retention_rate = ((customers_end -              *)
(* new_customers_acquired) / customers_start) * 100, roas =                *)
(* revenue_generated / advertising_spend; term4, term5, term6 are taken    *)
(* from the rounded cac, retention_rate, roas; composite_score = (term1 +  *)
(* term2 + term3) - term4 + term5 + term6; cost_efficiency =               *)
(* composite_score / budget_usd.  The Scenario A record CAMP601 gives cac  *)
(* 46.67, retention_rate 100.0, roas 6.0 and status Optimal.               *)
(***************************************************************************)
C9_MetricsFormulas ==
  \A i \in DOMAIN analysis_report :
    LET c == analysis_input[i]
        a == analysis_report[i]
    IN /\ AllFinite(c) =>
            /\ \A m \in {a.cac, a.retention_rate, a.roas, a.composite_score,
                         a.cost_efficiency} : m.k = "float"
            /\ Near(a.cac.n, 100 * Hundredths(c["total_campaign_spend"]),
                    Hundredths(c["new_customers_acquired"]))
            /\ Near(a.retention_rate.n,
                    10000 * (c["customers_end"].n - c["new_customers_acquired"].n),
                    c["customers_start"].n)
            /\ Near(a.roas.n, 100 * Hundredths(c["revenue_generated"]),
                    Hundredths(c["advertising_spend"]))
            /\ Near(a.term1.n, Hundredths(c["engagement_score"]), 2)
            /\ a.term2.n = 30 * Hundredths(c["conversion_rate"])
            /\ a.term3.n = 2 * Hundredths(c["predictive_roi"])
            /\ Near(a.term4.n, a.cac.n, 20)
            /\ Near(a.term5.n, a.retention_rate.n, 10)
            /\ Near(a.term6.n, a.roas.n, 10)
            /\ a.composite_score.n =
                 (a.term1.n + a.term2.n + a.term3.n) - a.term4.n + a.term5.n + a.term6.n
            /\ Near(a.cost_efficiency.n, 100 * a.composite_score.n,
                    Hundredths(c["budget_usd"]))
       /\ (c = _convert_field_types(CAMP601) /\ thresholds = default_thresholds) =>
            /\ a.cac = PyFloat(4667)
            /\ a.retention_rate = PyFloat(10000)
            /\ a.roas = PyFloat(600)
            /\ a.composite_score = PyFloat(6977)
            /\ a.status = "Optimal"

\* the CSV row of Scenario A has been analysed
C9_Witness ==
  /\ pc = "analyzed"
  /\ ~data_str.brace
  /\ thresholds = default_thresholds
  /\ analysis_input # << >>
  /\ analysis_input[1] = _convert_field_types(CAMP601)
  /\ analysis_report[1].cac = PyFloat(4667)

(***************************************************************************)
(* C10.  For a non-empty batch of n records, validate_data gives every     *)
(* record exactly one outcome, one error message or one entry in the       *)
(* valid-record list: len(errors) + len(data) = n, the valid-record list   *)
(* is the order-preserving subsequence of the coerced passing records,     *)
(* the errors are in strictly increasing row order, and the input records  *)
(* are left as parse_data returned them.                                   *)
(***************************************************************************)
C10_OneOutcomePerRecord ==
  (Validated /\ IsBatch(parsed_data) /\ parsed_data.items # << >>) =>
    LET items == parsed_data.items
        errors == validation_result.errors
        passing == SelectSeq(items, LAMBDA item : Passes(item.rec))
    IN /\ Len(errors) + Len(validation_result.data) = Len(items)
       /\ \A i \in DOMAIN items :
            Len(ErrorsOfRow(i)) = IF Passes(items[i].rec) THEN 0 ELSE 1
       /\ \A j, k \in DOMAIN errors : j < k => errors[j].row < errors[k].row
       /\ validation_result.data =
            [i \in 1..Len(passing) |-> _convert_field_types(passing[i].rec)]
       /\ parsed_data = parse_data(data_str)

\* a full batch with an error and a valid record has been validated
C10_Witness ==
  /\ pc = "validated"
  /\ Len(parsed_data.items) = MaxBatch
  /\ validation_result.errors # << >>
  /\ validation_result.data # << >>
  /\ Len(validation_result.errors) + Len(validation_result.data) = MaxBatch

====
